---- MODULE Spec2Model ----
\* Checkout / coupon / order pipeline of the OTT store (src/app.py).
\* Tables of the SQLite database and the Flask session are the state; every
\* route handler is one atomic action (one request, served synchronously).
EXTENDS Integers, Sequences, FiniteSets, TLC

\* ------------------------------------------------------------------ bounds
MaxOrders == 2      \* rows the orders table may hold
MaxBase == 12       \* small base amounts the evaluator is tried on: 0..MaxBase
MaxAmt == 110       \* coupon amounts the evaluator is tried on: -MaxAmt..MaxAmt

\* ------------------------------------------------------- python values
\* Python's None / an absent key, and a present value.
None == <<>>
Some(v) == <<v>>
Val(o) == o[1]

\* A str is the sequence of its characters.
Lowers == <<"a","b","c","d","e","f","g","h","i","j","k","l","m",
            "n","o","p","q","r","s","t","u","v","w","x","y","z">>
Uppers == <<"A","B","C","D","E","F","G","H","I","J","K","L","M",
            "N","O","P","Q","R","S","T","U","V","W","X","Y","Z">>

ToUpper == [c \in {Lowers[i] : i \in DOMAIN Lowers} |->
               Uppers[CHOOSE i \in DOMAIN Lowers : Lowers[i] = c]]
ToLower == [c \in {Uppers[i] : i \in DOMAIN Uppers} |->
               Lowers[CHOOSE i \in DOMAIN Uppers : Uppers[i] = c]]

LowerSet == DOMAIN ToUpper
UpperSet == DOMAIN ToLower

UpperChar(c) == IF c \in LowerSet THEN ToUpper[c] ELSE c
LowerChar(c) == IF c \in UpperSet THEN ToLower[c] ELSE c

upper(s) == [i \in 1..Len(s) |-> UpperChar(s[i])]
lower(s) == [i \in 1..Len(s) |-> LowerChar(s[i])]

RECURSIVE lstrip(_)
lstrip(s) == IF s # <<>> /\ Head(s) = " " THEN lstrip(Tail(s)) ELSE s

RECURSIVE rstrip(_)
rstrip(s) ==
    IF s # <<>> /\ s[Len(s)] = " " THEN rstrip(SubSeq(s, 1, Len(s) - 1)) ELSE s

strip(s) == rstrip(lstrip(s))

Digits == <<"0","1","2","3","4","5","6","7","8","9">>
DigitValue == [c \in {Digits[i] : i \in DOMAIN Digits} |->
                  (CHOOSE i \in DOMAIN Digits : Digits[i] = c) - 1]
DigitSet == DOMAIN DigitValue
IsDigit(c) == c \in DigitSet
DigitVal(c) == DigitValue[c]

RECURSIVE DigitsVal(_)
DigitsVal(ds) ==
    IF ds = <<>> THEN 0
    ELSE LET c == ds[Len(ds)]
             rest == DigitsVal(SubSeq(ds, 1, Len(ds) - 1))
         IN  IF c = "_" THEN rest ELSE rest * 10 + DigitVal(c)

\* int(str): surrounding whitespace dropped, an optional sign, then digits
\* (single underscores allowed between digits); anything else raises ValueError.
PyInt(s) ==
    LET t == strip(s)
        signed == t # <<>> /\ Head(t) \in {"+", "-"}
        ds == IF signed THEN Tail(t) ELSE t
        wellformed ==
            /\ ds # <<>>
            /\ \A i \in 1..Len(ds) : IsDigit(ds[i]) \/ ds[i] = "_"
            /\ IsDigit(ds[1]) /\ IsDigit(ds[Len(ds)])
            /\ \A i \in 1..(Len(ds) - 1) : ~(ds[i] = "_" /\ ds[i + 1] = "_")
    IN  IF wellformed
        THEN [ok |-> TRUE,
              val |-> IF signed /\ Head(t) = "-" THEN 0 - DigitsVal(ds) ELSE DigitsVal(ds)]
        ELSE [ok |-> FALSE, val |-> 0]

\* int(n / d) for d > 0: true division, then truncation toward zero. The float
\* quotient is exact enough for |n| < 2^53, which covers every amount here.
IntOfQuotient(n, d) == IF n >= 0 THEN n \div d ELSE 0 - ((0 - n) \div d)

Max(a, b) == IF a >= b THEN a ELSE b

\* ------------------------------------------------------------------ state
VARIABLES
    coupons,        \* coupons table: code (primary key) -> [type, amount, expires_at]
    orders,         \* orders table, in rowid order
    users,          \* users table: email (unique) -> password
    session,        \* the browser's Flask session
    now,            \* the instant datetime.utcnow() returns
    stripe_session, \* the last request made of stripe.checkout.Session.create
    response,       \* the response to the last request
    ev_in,          \* evaluator harness: the base amount handed in
    ev_out          \* evaluator harness: what apply_coupon_to_amount returned

vars == <<coupons, orders, users, session, now, stripe_session, response,
          ev_in, ev_out>>

db == <<coupons, orders, users>>
harness == <<ev_in, ev_out>>

\* ---------------------------------------------------------------- config
ADMIN_EMAIL == <<"a","d","m","i","n","@","a","d","m","i","n",".","c","o","m">>
ADMIN_PASSWORD_PLAIN == "adminpass"

\* werkzeug's hash pair: check_password_hash(generate_password_hash(p), q) iff p = q.
generate_password_hash(p) == p
check_password_hash(h, p) == h = p

\* ------------------------------------------------------------------ plans
plans ==
    { [id |-> 1, name |-> "Netflix Standard", price |-> 199, logo |-> "netflix.png"],
      [id |-> 2, name |-> "Amazon Prime Video", price |-> 149, logo |-> "prime.png"],
      [id |-> 3, name |-> "Disney+ Hotstar Premium", price |-> 299, logo |-> "hotstar.png"],
      [id |-> 4, name |-> "Sony LIV Premium", price |-> 129, logo |-> "sonyliv.png"],
      [id |-> 5, name |-> "Zee5 Premium", price |-> 99, logo |-> "zee5.png"] }

\* Variant: an unknown id falls back to the first plan of the catalog.
get_plan_default(plan_id) ==
    IF \E p \in plans : p.id = plan_id
    THEN Some(CHOOSE p \in plans : p.id = plan_id)
    ELSE Some(CHOOSE p \in plans : \A q \in plans : p.id <= q.id)

get_plan(plan_id) ==
    IF \E p \in plans : p.id = plan_id
    THEN Some(CHOOSE p \in plans : p.id = plan_id)
    ELSE None

\* ---------------------------------------------------------------- coupons
\* expires_at: None, or the text of the form field; iso says whether
\* datetime.fromisoformat accepts it, t is the instant it then names.
IsoDate(t) == [iso |-> TRUE, t |-> t]
BadDate == [iso |-> FALSE, t |-> 0]

\* Variant: a coupon counts as expired from its expiry instant on.
expired_at_instant(expires) == now >= expires.t

\* datetime.utcnow() > expires
expired(expires) == now > expires.t

\* Variant: the flat deduction is not clamped at zero.
flat_amount_unclamped(amount, coupon) == amount - coupon.amount

flat_amount(amount, coupon) == Max(0, amount - coupon.amount)

\* Variant: the discount is truncated, then subtracted.
percent_amount_of_discount(amount, coupon) ==
    Max(0, amount - IntOfQuotient(amount * coupon.amount, 100))

\* Variant: the percent result is not clamped at zero.
percent_amount_unclamped(amount, coupon) ==
    IntOfQuotient(amount * (100 - coupon.amount), 100)

percent_amount(amount, coupon) ==
    Max(0, IntOfQuotient(amount * (100 - coupon.amount), 100))

\* Returns (new amount, error); raised is the ValueError of fromisoformat.
apply_coupon_to_amount(code, amount) ==
    IF code = None \/ Val(code) = <<>>
    THEN [amount |-> amount, error |-> None, raised |-> FALSE]
    ELSE IF upper(Val(code)) \notin DOMAIN coupons
    THEN [amount |-> amount, error |-> Some("INVALID"), raised |-> FALSE]
    ELSE LET coupon == coupons[upper(Val(code))] IN
         IF coupon.expires_at # None /\ ~Val(coupon.expires_at).iso
         THEN [amount |-> amount, error |-> None, raised |-> TRUE]
         ELSE IF coupon.expires_at # None /\ expired(Val(coupon.expires_at))
         THEN [amount |-> amount, error |-> Some("EXPIRED"), raised |-> FALSE]
         ELSE IF coupon.type = "flat"
         THEN [amount |-> flat_amount(amount, coupon),
               error |-> None, raised |-> FALSE]
         ELSE [amount |-> percent_amount(amount, coupon),
               error |-> None, raised |-> FALSE]

\* ----------------------------------------------------------------- inputs
\* Request inputs the handlers are driven with.
\* The clock: the instant a coupon of the forms below expires at, and a later one.
Instants == {0, 1}
PlanIds == {1, 9}                          \* <int:plan_id> of the checkout route
PlanArgs ==                                \* ?plan= of the success route
    { None, Some(<<>>), Some(<<" ","1">>), Some(<<"9">>), Some(<<"x">>) }
CouponInputs == { <<" ">>, <<" ","a">> }
CouponForms ==                             \* admin form: code, type, amount, expires
    { [code |-> <<"a">>, type |-> "flat", amount |-> <<"5","0">>, expires |-> None],
      [code |-> <<"A"," ">>, type |-> "percent", amount |-> <<"5","0">>,
       expires |-> Some(IsoDate(0))],
      [code |-> <<"a">>, type |-> "flat", amount |-> <<"x">>, expires |-> None] }
DeleteCodes == { <<"a">> }
Emails == { <<"U"," ">> }
Passwords == { "pw", "bad" }
AdminLogins ==
    { [email |-> upper(ADMIN_EMAIL), password |-> ADMIN_PASSWORD_PLAIN],
      [email |-> ADMIN_EMAIL, password |-> "bad"] }
OrderIds == {1, 3}

\* --------------------------------------------------------------- responses
\* What the client sees of a response: its status and, on the success page, the
\* order id the template is given.
Response(status) == [status |-> status, order_id |-> None]
Redirect == Response(302)
ServerError == Response(500)

\* ------------------------------------------------------------------- init
ADMIN_PASSWORD_HASH == generate_password_hash(ADMIN_PASSWORD_PLAIN)

init_db ==
    /\ coupons = [c \in {} |-> None]
    /\ orders = <<>>
    /\ users = [e \in {} |-> None]

Init ==
    /\ init_db
    /\ session = [coupon_code |-> None, user |-> None, is_admin |-> FALSE,
                  admin_email |-> None]
    /\ now = 0
    /\ stripe_session = None
    /\ response = Response(200)
    /\ ev_in = None
    /\ ev_out = None

\* ------------------------------------------------------------ decorators
login_required == session.user # None
admin_required == session.is_admin

\* ---------------------------------------------------------------- checkout
\* The amount of the line item, in paisa.
unit_amount(coupon, amount) ==
    LET r == apply_coupon_to_amount(coupon, amount)
        final_amount == IF r.error # None THEN amount ELSE r.amount
    IN  final_amount * 100

\* The request sent to the provider. coupon and coupon_error are history, not
\* part of the request: the session's code when the checkout started and what
\* apply_coupon_to_amount said of it.
StripeRequest(p, coupon, r) ==
    [name |-> p.name, unit_amount |-> unit_amount(coupon, p.price), plan |-> p.id,
     coupon |-> coupon, coupon_error |-> r.error]

create_checkout_session(plan_id) ==
    LET p == get_plan(plan_id) IN
    IF p = None
    THEN /\ response' = Response(404)
         /\ UNCHANGED <<db, session, now, stripe_session, harness>>
    ELSE LET amount == Val(p).price
             coupon == session.coupon_code
             r == apply_coupon_to_amount(coupon, amount)
         IN  IF r.raised
             THEN /\ response' = ServerError
                  /\ UNCHANGED <<db, session, now, stripe_session, harness>>
             ELSE /\ session' = IF r.error # None
                                THEN [session EXCEPT !.coupon_code = None]
                                ELSE session
                  /\ stripe_session' = Some(StripeRequest(Val(p), coupon, r))
                  /\ \E created \in BOOLEAN :
                        response' = IF created THEN Response(303) ELSE Response(200)
                  /\ UNCHANGED <<db, now, harness>>

\* ----------------------------------------------------------------- success
\* INSERT INTO orders: AUTOINCREMENT gives the row an id above every id used.
lastrowid(os) == IF os = <<>> THEN 1 ELSE os[Len(os)].id + 1

\* Variant: a second order of the same user for the same plan is ignored.
insert_order_once(os, user_email, plan, coupon, created) ==
    IF \E i \in DOMAIN os : os[i].user_email = user_email /\ os[i].plan_id = plan.id
    THEN os
    ELSE Append(os, [id |-> lastrowid(os), user_email |-> user_email,
                     plan_id |-> plan.id, plan_name |-> plan.name,
                     amount |-> plan.price, coupon_code |-> coupon,
                     created_at |-> created])

insert_order(os, user_email, plan, coupon, created) ==
    Append(os, [id |-> lastrowid(os), user_email |-> user_email,
                plan_id |-> plan.id, plan_name |-> plan.name,
                amount |-> plan.price, coupon_code |-> coupon,
                created_at |-> created])


\* Variant: an order row is written even when the plan was not found.
success_without_plan(plan_id) ==
    LET parsed == IF plan_id # None /\ Val(plan_id) # <<>>
                  THEN PyInt(Val(plan_id)) ELSE [ok |-> TRUE, val |-> 0]
        found == IF plan_id # None /\ Val(plan_id) # <<>>
                 THEN get_plan(parsed.val) ELSE None
        plan == IF found # None THEN Val(found)
                ELSE [id |-> 0, name |-> "", price |-> 0, logo |-> ""]
    IN  /\ UNCHANGED <<coupons, users, now, stripe_session, harness>>
        /\ IF ~parsed.ok
           THEN /\ response' = ServerError
                /\ UNCHANGED <<orders, session>>
           ELSE /\ Len(orders) < MaxOrders
                /\ orders' = insert_order(orders, session.user, plan,
                                          session.coupon_code, now)
                /\ response' = [status |-> 200,
                                order_id |-> Some(orders'[Len(orders')].id)]
                /\ session' = [session EXCEPT !.coupon_code = None]

\* int(plan_id) raises ValueError on a non-numeric argument: the request ends
\* in a 500 before anything is written or the session is touched.
success(plan_id) ==
    /\ UNCHANGED <<coupons, users, now, stripe_session, harness>>
    /\ LET parsed == IF plan_id # None /\ Val(plan_id) # <<>>
                     THEN PyInt(Val(plan_id)) ELSE [ok |-> TRUE, val |-> 0]
           plan == IF plan_id # None /\ Val(plan_id) # <<>>
                   THEN get_plan(parsed.val) ELSE None
       IN  IF ~parsed.ok
           THEN /\ response' = ServerError
                /\ UNCHANGED <<orders, session>>
           ELSE /\ IF plan # None
                   THEN /\ Len(orders) < MaxOrders
                        /\ orders' = insert_order(orders, session.user, Val(plan),
                                                  session.coupon_code, now)
                        /\ response' = [status |-> 200,
                                        order_id |-> Some(orders'[Len(orders')].id)]
                   ELSE /\ response' = Response(200)
                        /\ UNCHANGED orders
                /\ session' = [session EXCEPT !.coupon_code = None]

\* ------------------------------------------------------------ apply coupon
apply_coupon(form) ==
    LET code == upper(strip(form)) IN
    /\ session' = IF code = <<>> THEN session
                  ELSE [session EXCEPT !.coupon_code = Some(code)]
    /\ response' = Redirect
    /\ UNCHANGED <<db, now, stripe_session, harness>>

\* -------------------------------------------------------------------- auth
register(email_form, password) ==
    LET email == strip(lower(email_form)) IN
    /\ IF email = <<>> \/ password = "" \/ email \in DOMAIN users
       THEN UNCHANGED <<users, session>>
       ELSE /\ users' = [e \in DOMAIN users \cup {email} |->
                            IF e = email THEN generate_password_hash(password)
                            ELSE users[e]]
            /\ session' = [session EXCEPT !.user = Some(email)]
    /\ response' = Redirect
    /\ UNCHANGED <<coupons, orders, now, stripe_session, harness>>

login(email_form, password) ==
    LET email == strip(lower(email_form)) IN
    /\ session' = IF email \in DOMAIN users /\ check_password_hash(users[email], password)
                  THEN [session EXCEPT !.user = Some(email)]
                  ELSE session
    /\ response' = Redirect
    /\ UNCHANGED <<db, now, stripe_session, harness>>

logout ==
    /\ session' = [session EXCEPT !.user = None]
    /\ response' = Redirect
    /\ UNCHANGED <<db, now, stripe_session, harness>>

admin_login(email_form, password) ==
    LET email == strip(email_form) IN
    /\ session' = IF lower(email) = lower(ADMIN_EMAIL)
                     /\ check_password_hash(ADMIN_PASSWORD_HASH, password)
                  THEN [session EXCEPT !.is_admin = TRUE, !.admin_email = Some(email)]
                  ELSE session
    /\ response' = Redirect
    /\ UNCHANGED <<db, now, stripe_session, harness>>

admin_logout ==
    /\ session' = [session EXCEPT !.is_admin = FALSE, !.admin_email = None]
    /\ response' = Redirect
    /\ UNCHANGED <<db, now, stripe_session, harness>>

\* ------------------------------------------------------------------- admin
admin_create_coupon(form) ==
    LET code == strip(upper(form.code))
        amount == PyInt(form.amount)
    IN  /\ IF ~admin_required
           THEN response' = Redirect /\ UNCHANGED coupons
           ELSE IF ~amount.ok
           THEN response' = ServerError /\ UNCHANGED coupons
           ELSE /\ response' = Redirect
                /\ IF code \in DOMAIN coupons
                   THEN UNCHANGED coupons
                   ELSE coupons' = [c \in DOMAIN coupons \cup {code} |->
                                       IF c = code
                                       THEN [type |-> form.type, amount |-> amount.val,
                                             expires_at |-> form.expires]
                                       ELSE coupons[c]]
        /\ UNCHANGED <<orders, users, session, now, stripe_session, harness>>

\* Variant: deleting a coupon also blanks it in the orders that used it.
admin_delete_coupon_cascade(code) ==
    /\ IF ~admin_required
       THEN UNCHANGED <<coupons, orders>>
       ELSE /\ coupons' = [c \in DOMAIN coupons \ {upper(code)} |-> coupons[c]]
            /\ orders' = [i \in DOMAIN orders |->
                             IF orders[i].coupon_code = Some(upper(code))
                             THEN [orders[i] EXCEPT !.coupon_code = None]
                             ELSE orders[i]]
    /\ response' = Redirect
    /\ UNCHANGED <<users, session, now, stripe_session, harness>>

admin_delete_coupon(code) ==
    /\ IF ~admin_required
       THEN UNCHANGED coupons
       ELSE coupons' = [c \in DOMAIN coupons \ {upper(code)} |-> coupons[c]]
    /\ response' = Redirect
    /\ UNCHANGED <<orders, users, session, now, stripe_session, harness>>

\* ---------------------------------------------------------------- invoices
generate_invoice_pdf(order_id) ==
    IF \E i \in DOMAIN orders : orders[i].id = order_id
    THEN Some(orders[CHOOSE i \in DOMAIN orders : orders[i].id = order_id])
    ELSE None

invoice(order_id) ==
    /\ response' = IF ~login_required THEN Redirect
                   ELSE IF generate_invoice_pdf(order_id) = None THEN Response(404)
                   ELSE Response(200)
    /\ UNCHANGED <<db, session, now, stripe_session, harness>>

dashboard ==
    /\ response' = IF ~login_required THEN Redirect ELSE Response(200)
    /\ UNCHANGED <<db, session, now, stripe_session, harness>>

admin_dashboard ==
    /\ response' = IF ~admin_required THEN Redirect ELSE Response(200)
    /\ UNCHANGED <<db, session, now, stripe_session, harness>>

\* ------------------------------------------------------------------- clock
utcnow ==
    /\ now + 1 \in Instants
    /\ now' = now + 1
    /\ UNCHANGED <<db, session, stripe_session, response, harness>>

\* ------------------------------------------------------------------- spec
\* The store: one browser session against the application.
Next ==
    \/ \E p \in PlanIds : create_checkout_session(p)
    \/ \E a \in PlanArgs : success(a)
    \/ \E c \in CouponInputs : apply_coupon(c)
    \/ \E e \in Emails : register(e, "pw")
    \/ \E e \in Emails, pw \in Passwords : login(e, pw)
    \/ logout
    \/ \E f \in AdminLogins : admin_login(f.email, f.password)
    \/ admin_logout
    \/ \E f \in CouponForms : admin_create_coupon(f)
    \/ \E c \in DeleteCodes : admin_delete_coupon(c)
    \/ \E o \in OrderIds : invoice(o)
    \/ dashboard
    \/ admin_dashboard
    \/ utcnow

Spec == Init /\ [][Next]_vars

\* ------------------------------------------------------ evaluator harness
\* apply_coupon_to_amount and the checkout's unit amount as functions: one coupon
\* row under the code the session holds, a base amount, an instant.
EvalCode == <<"S","A","V","E","5","0">>
EvalBases == (0..MaxBase) \cup {p.price : p \in plans}
EvalRows ==
    [type : {"flat", "percent"}, amount : (0 - MaxAmt)..MaxAmt,
     expires_at : {None, Some(IsoDate(0)), Some(BadDate)}]

EvalInit ==
    /\ coupons \in {[c \in {EvalCode} |-> row] : row \in EvalRows}
    /\ orders = <<>>
    /\ users = [e \in {} |-> None]
    /\ session = [coupon_code |-> Some(EvalCode), user |-> None, is_admin |-> FALSE,
                  admin_email |-> None]
    /\ now \in Instants
    /\ stripe_session = None
    /\ response = Response(200)
    /\ ev_in \in {Some(b) : b \in EvalBases}
    /\ ev_out = None

evaluate ==
    /\ ev_out = None
    /\ LET r == apply_coupon_to_amount(session.coupon_code, Val(ev_in)) IN
       ev_out' = Some([amount |-> r.amount, error |-> r.error, raised |-> r.raised,
                       unit_amount |-> IF r.raised THEN None
                                       ELSE Some(unit_amount(session.coupon_code,
                                                             Val(ev_in)))])
    /\ UNCHANGED <<db, session, now, stripe_session, response, ev_in>>

EvalNext == evaluate

EvalSpec == EvalInit /\ [][EvalNext]_vars

\* ============================================================ properties
PlanTableIds == {p.id : p \in plans}
PlanRow(id) == CHOOSE p \in plans : p.id = id

\* The ?plan= argument read as the request means it: the plan it names, if any.
ArgIsInt(a) == a # None /\ Val(a) # <<>> /\ PyInt(Val(a)).ok
ArgNamesPlan(a) == ArgIsInt(a) /\ PyInt(Val(a)).val \in PlanTableIds
ArgNamesNoPlan(a) ==
    a = None \/ Val(a) = <<>> \/ (ArgIsInt(a) /\ PyInt(Val(a)).val \notin PlanTableIds)

PlanArgsOfPlans == {a \in PlanArgs : ArgNamesPlan(a)}
PlanArgsOfNoPlan == {a \in PlanArgs : ArgNamesNoPlan(a)}

\* A coupon row that is in force at the current instant.
Unexpired(row) ==
    \/ row.expires_at = None
    \/ Val(row.expires_at).iso /\ ~(Val(row.expires_at).t < now)
PastExpiry(row) ==
    row.expires_at # None /\ Val(row.expires_at).iso /\ Val(row.expires_at).t < now

\* The last checkout had a valid, unexpired coupon in effect.
CouponInEffect ==
    /\ stripe_session # None
    /\ Val(stripe_session).coupon # None
    /\ Val(stripe_session).coupon_error = None

\* C1: an order recorded after a checkout of the same plan in which a coupon was
\* in effect has as amount the amount the provider was asked to charge (the
\* unit amount, in rupees), not the plan's list price.
C1_OrderAmountIsChargedAmount ==
    [][\A i \in DOMAIN orders' :
          (i > Len(orders) /\ CouponInEffect
           /\ Val(stripe_session).plan = orders'[i].plan_id)
          => orders'[i].amount * 100 = Val(stripe_session).unit_amount]_vars

\* C2: after every request to the success endpoint, whatever its plan argument,
\* the session holds no coupon code.
C2_SuccessClearsCoupon ==
    [][\A a \in PlanArgs : success(a) => session'.coupon_code = None]_vars

\* C3: a checkout of an existing plan with a session coupon that is unknown, or
\* past its expiry, goes to the provider at the plan's full price (price * 100)
\* and drops the code from the session; a coupon with no expiry, or not yet past
\* it, stays in the session.
C3_BadCouponDegrades ==
    [][\A p \in PlanIds :
          (p \in PlanTableIds /\ session.coupon_code # None
           /\ create_checkout_session(p))
          => LET code == Val(session.coupon_code)
                 known == code \in DOMAIN coupons
             IN  /\ (~known \/ PastExpiry(coupons[code]))
                    => /\ response'.status \in {303, 200}
                       /\ stripe_session' # None
                       /\ Val(stripe_session').plan = p
                       /\ Val(stripe_session').unit_amount = PlanRow(p).price * 100
                       /\ session'.coupon_code = None
                 /\ (known /\ Unexpired(coupons[code]))
                    => session'.coupon_code = session.coupon_code]_vars

\* C3 witness: an expired coupon was in the session at checkout; the provider
\* was asked for the full price and the code is gone.
C3_Witness ==
    /\ stripe_session # None
    /\ Val(stripe_session).coupon # None
    /\ Val(stripe_session).coupon_error = Some("EXPIRED")
    /\ Val(stripe_session).unit_amount = PlanRow(Val(stripe_session).plan).price * 100
    /\ session.coupon_code = None
    /\ response.status = 303

\* C4: a checkout of a plan id that is not in the catalog answers not-found and
\* changes neither the provider's record, the session, the orders nor the coupons.
C4_UnknownPlanNotFound ==
    [][\A p \in PlanIds :
          (p \notin PlanTableIds /\ create_checkout_session(p))
          => /\ response'.status = 404
             /\ UNCHANGED <<stripe_session, session, orders, coupons>>]_vars

\* C4 witness: a guest got not-found (only the checkout answers a guest so) with
\* a coupon in the session, orders and coupons on record, and the provider
\* never called.
C4_Witness ==
    /\ response.status = 404
    /\ session.user = None
    /\ session.coupon_code # None
    /\ orders # <<>>
    /\ DOMAIN coupons # {}
    /\ stripe_session = None

\* C5: a known, unexpired flat coupon of amount f >= 0 on a base amount b >= 0
\* gives max(0, b - f).
C5_FlatDiscount ==
    (ev_out # None /\ ~Val(ev_out).raised)
    => LET row == coupons[EvalCode]
           b == Val(ev_in)
       IN  (row.type = "flat" /\ row.amount >= 0 /\ b >= 0 /\ Unexpired(row))
           => /\ Val(ev_out).error = None
              /\ Val(ev_out).amount = IF b - row.amount >= 0 THEN b - row.amount ELSE 0

\* C5 witness: flat 50 on 199 gave 149.
C5_Witness ==
    /\ ev_out # None
    /\ coupons[EvalCode].type = "flat" /\ coupons[EvalCode].amount = 50
    /\ Val(ev_in) = 199
    /\ Val(ev_out).error = None /\ Val(ev_out).amount = 149

\* C6: a known, unexpired percent coupon of p in 0..100 on a base amount b >= 0
\* gives floor(b * (100 - p) / 100), which lies in 0..b.
C6_PercentDiscount ==
    (ev_out # None /\ ~Val(ev_out).raised)
    => LET row == coupons[EvalCode]
           b == Val(ev_in)
       IN  (row.type = "percent" /\ row.amount \in 0..100 /\ b >= 0 /\ Unexpired(row))
           => /\ Val(ev_out).error = None
              /\ Val(ev_out).amount = (b * (100 - row.amount)) \div 100
              /\ Val(ev_out).amount >= 0
              /\ Val(ev_out).amount <= b

\* C6 witness: 50 percent on 199 gave 99 (99.5 rounded down).
C6_Witness ==
    /\ ev_out # None
    /\ coupons[EvalCode].type = "percent" /\ coupons[EvalCode].amount = 50
    /\ Val(ev_in) = 199
    /\ Val(ev_out).error = None /\ Val(ev_out).amount = 99

\* C7: whatever the coupon's kind and amount, the evaluator's result and the unit
\* amount sent to the provider are never negative; a percent above 100 gives 0.
C7_NeverNegative ==
    (ev_out # None /\ ~Val(ev_out).raised)
    => LET row == coupons[EvalCode] IN
       /\ Val(ev_out).amount >= 0
       /\ Val(Val(ev_out).unit_amount) >= 0
       /\ (row.type = "percent" /\ row.amount > 100 /\ Unexpired(row))
          => /\ Val(ev_out).amount = 0
             /\ Val(Val(ev_out).unit_amount) = 0

\* C7 witness: a percent coupon above 100 on a plan price gave 0.
C7_Witness ==
    /\ ev_out # None
    /\ coupons[EvalCode].type = "percent" /\ coupons[EvalCode].amount > 100
    /\ Val(ev_in) = 199
    /\ Val(ev_out).error = None /\ Val(ev_out).amount = 0
    /\ Val(ev_out).unit_amount = Some(0)

\* C8: every request to the success endpoint that names an existing plan (the
\* page then shows an order id) adds one order row whose id no earlier row has,
\* also when a row for the same plan and session is already there.
C8_NoDeduplication ==
    [][response'.order_id # None
       => \A a \in PlanArgsOfPlans :
             success(a)
             => /\ Len(orders') = Len(orders) + 1
                /\ \A i \in DOMAIN orders :
                      orders'[Len(orders')].id # orders[i].id]_vars

\* C8 witness: two rows that differ in nothing but the id, the second just
\* written.
C8_Witness ==
    /\ Len(orders) >= 2
    /\ LET a == orders[Len(orders) - 1]
           b == orders[Len(orders)]
       IN  /\ a.id # b.id
           /\ [a EXCEPT !.id = b.id] = b
           /\ response.order_id = Some(b.id)

\* C9: a step never removes an order row or changes a field of one.
C9_OrdersImmutable ==
    [][/\ Len(orders') >= Len(orders)
       /\ \A i \in DOMAIN orders : orders'[i] = orders[i]]_vars

\* C9 witness: an order outlived its coupon's deletion, its user's logout and a
\* later order.
C9_Witness ==
    /\ Len(orders) >= 2
    /\ orders[1].coupon_code # None
    /\ Val(orders[1].coupon_code) \notin DOMAIN coupons
    /\ orders[1].user_email # None
    /\ session.user = None
    /\ now > orders[1].created_at

====
